---------------------------- MODULE Spec2Model ----------------------------
(***************************************************************************)
(* Monimo (src/script.js): the transaction / inventory / journal engine.   *)
(*                                                                         *)
(* The seven persisted arrays of script.js are the state.  Every handler   *)
(* of the page (form submit, delete button, pay button, stock form, item   *)
(* form) is one action.  Handlers are translated as functions on a ledger  *)
(* record `s` that holds the seven arrays and the clock, so that a handler *)
(* that calls other functions (revert, apply, addLog, the journal          *)
(* projections) is the composition of their translations.                  *)
(*                                                                         *)
(* Abstractions:                                                           *)
(*  - uid() is Date.now() plus a random suffix and nowISO() is the same    *)
(*    clock: both are read from one monotone counter `clock`; uid()        *)
(*    advances it, so ids are unique and dates are non-decreasing.         *)
(*  - money amounts and prices are naturals (centavos).                    *)
(*  - null / '' / undefined ids are NoId (0); a null balance is <<>>.      *)
(*  - the display-only strings name, category, customer, supplier and      *)
(*    invName are left blank ('' is an input the forms accept), so the     *)
(*    `x.customer || x.description` fallbacks yield the description.       *)
(*  - editingInventoryId (script.js:39) is written by startEditInventory   *)
(*    and read only by the next submit of the item form: the submit       *)
(*    action takes the id as its input.                                    *)
(*  - an audit note keeps its text prefix and the transaction id it        *)
(*    embeds as a pair.                                                    *)
(***************************************************************************)
EXTENDS Integers, Sequences, FiniteSets, TLC

(* ------------------------------ bounds --------------------------------- *)
\* number of values the clock hands out (ids and timestamps)
MaxUid == 7
\* audit-log entries that may exist at once
MaxLogs == 4
\* inventory items that may exist at once
MaxItems == 1
\* transactions that may be stored at once
MaxTxns == 1
\* largest amount typed into the transaction form / payment prompt
MaxAmount == 2
\* largest quantity typed into a form
MaxQty == 2
\* largest unit price typed into the item form
MaxPrice == 1
\* number of distinct descriptions typed into the transaction form
MaxDesc == 1
\* transactions that may be stored at once where two of them are compared
MaxPair == 2
\* inventory items that may exist at once where two of them are compared
MaxItemPair == 2

NoId == 0

Amounts      == 1..MaxAmount
Quantities   == 1..MaxQty
Prices       == 0..MaxPrice
\* descriptions are numbered: '' is NoDesc, the form's are 1..MaxDesc and the
\* `Purchase - <item name>` of the stock form (script.js:1055) is StockDesc
Descriptions == 1..MaxDesc
NoDesc       == NoId
StockDesc    == MaxDesc + 1
Types        == {"revenue", "expense"}
Methods      == {"Cash", "Credit"}

VARIABLES
  transactions,        \* script.js:30
  inventory,           \* script.js:31
  logs,                \* script.js:32
  purchasesJournal,    \* script.js:33
  salesJournal,        \* script.js:34
  cashReceipts,        \* script.js:35
  cashDisbursements,   \* script.js:36
  generalJournal,      \* the rows of #generalJournalTable tbody, script.js:607
  editId,              \* script.js:38
  originalTxnSnapshot, \* script.js:40  (<<>> is null, <<t>> a copy of t)
  clock,               \* Date.now(): the next value uid()/nowISO() reads
  last                 \* the handler that ran last and how it ended

ledgers == <<transactions, inventory, logs, purchasesJournal, salesJournal,
             cashReceipts, cashDisbursements, generalJournal>>
vars == <<transactions, inventory, logs, purchasesJournal, salesJournal,
          cashReceipts, cashDisbursements, generalJournal, editId,
          originalTxnSnapshot, clock, last>>

(* ----------------------------- sequences ------------------------------- *)
Range(s) == {s[i] : i \in 1..Len(s)}

\* Array.prototype.unshift
Unshift(s, e) == <<e>> \o s

\* the first index of s whose element is in the set P (0 when there is none):
\* Array.prototype.find / findIndex
FirstIn(s, P) ==
  IF \E i \in 1..Len(s) : s[i] \in P
  THEN CHOOSE i \in 1..Len(s) : s[i] \in P /\ \A j \in 1..(i - 1) : s[j] \notin P
  ELSE 0

Max(a, b) == IF a >= b THEN a ELSE b
Min(a, b) == IF a <= b THEN a ELSE b

(* ------------------------------ the ledger ------------------------------ *)
\* the module-level arrays of script.js:30-36 and the clock, as one value
Ledger == [transactions |-> transactions, inventory |-> inventory,
           logs |-> logs, purchasesJournal |-> purchasesJournal,
           salesJournal |-> salesJournal, cashReceipts |-> cashReceipts,
           cashDisbursements |-> cashDisbursements,
           generalJournal |-> generalJournal, clock |-> clock]

\* uid(): the value read, and the ledger after the read
uid(s) == s.clock
Tick(s) == [s EXCEPT !.clock = @ + 1]
\* nowISO() / new Date().toISOString()
nowISO(s) == s.clock

\* Array.prototype.slice().reverse()
Reverse(q) == [i \in 1..Len(q) |-> q[Len(q) + 1 - i]]

\* the rows renderGeneralJournal builds (script.js:611-648): the
\* transactions, then the receipts, then the disbursements, each latest
\* first, with the date, description, type and amount cells
GeneralJournalRows(s) ==
  LET ts == Reverse(s.transactions)
      rs == Reverse(s.cashReceipts)
      ds == Reverse(s.cashDisbursements)
  IN [i \in 1..Len(ts) |->
        [date |-> ts[i].date, description |-> ts[i].description,
         type |-> ts[i].type, amount |-> ts[i].amount]]
     \o [i \in 1..Len(rs) |->
        [date |-> rs[i].date, description |-> rs[i].from,
         type |-> "receipt", amount |-> rs[i].amount]]
     \o [i \in 1..Len(ds) |->
        [date |-> ds[i].date, description |-> ds[i].description,
         type |-> "disbursement", amount |-> ds[i].amount]]

\* renderGeneralJournal without the tb.innerHTML = '' of script.js:609
renderGeneralJournalAppending(s) ==
  [s EXCEPT !.generalJournal = @ \o GeneralJournalRows(s)]

\* renderGeneralJournal(), script.js:606-649: the table body is emptied and
\* filled again
renderGeneralJournal(s) == [s EXCEPT !.generalJournal = GeneralJournalRows(s)]

\* inventory.find(i => i.id === id): index, 0 when absent
ItemIndex(s, id) == FirstIn(s.inventory, {it \in Range(s.inventory) : it.id = id})

\* addLog with logs.push in place of the logs.unshift of script.js:137
addLogPush(s, itemId, action, qtyChange, note) ==
  LET k == ItemIndex(s, itemId)
      entry == [id |-> uid(s),
                timestamp |-> nowISO(s),
                itemId |-> itemId,
                action |-> action,
                qtyChange |-> qtyChange,
                balanceAfter |-> IF k = 0 THEN <<>>
                                 ELSE <<s.inventory[k].quantity>>,
                note |-> note]
  IN [Tick(s) EXCEPT !.logs = Append(@, entry)]

\* getTxnInventoryCost(t), script.js:79-88: the stored invCost when it is a
\* number, as it is on every transaction the page stores (script.js:770,
\* 822, 1060); otherwise, for a linked sale, quantity times the item's
\* current unit price
getTxnInventoryCost(s, t) ==
  IF t.invCost \in Nat THEN t.invCost
  ELSE IF t.type = "revenue" /\ t.invId # NoId /\ t.invQty # 0
       THEN LET k == ItemIndex(s, t.invId)
            IN t.invQty * (IF k # 0 THEN s.inventory[k].unitPrice ELSE 0)
       ELSE 0

(* ------------------------------- addLog -------------------------------- *)
addLog(s, itemId, action, qtyChange, note) ==
  LET k == ItemIndex(s, itemId)
      entry == [id |-> uid(s),
                timestamp |-> nowISO(s),
                itemId |-> itemId,
                action |-> action,
                qtyChange |-> qtyChange,
                balanceAfter |-> IF k = 0 THEN <<>>
                                 ELSE <<s.inventory[k].quantity>>,
                note |-> note]
  IN [Tick(s) EXCEPT !.logs = Unshift(@, entry)]

(* ----------------------- variants of the helpers ----------------------- *)
\* revertTransactionInventory without the addLog calls of script.js:230, 235
revertTransactionInventoryNoLog(s, txn) ==
  IF txn.invId = NoId THEN [s |-> s, error |-> FALSE]
  ELSE LET k == ItemIndex(s, txn.invId) IN
    IF k = 0 THEN [s |-> s, error |-> TRUE]
    ELSE [s |-> [s EXCEPT !.inventory[k].quantity =
                   IF txn.type = "revenue" THEN @ + txn.invQty
                   ELSE IF txn.type = "expense" THEN @ - txn.invQty ELSE @],
          error |-> FALSE]

\* revertTransactionInventory without the missing-item return of script.js:225
revertTransactionInventoryLenient(s, txn) ==
  IF txn.invId = NoId THEN [s |-> s, error |-> FALSE]
  ELSE LET k == ItemIndex(s, txn.invId) IN
    IF k = 0 THEN [s |-> s, error |-> FALSE]
    ELSE LET qty == IF txn.type = "revenue" THEN txn.invQty ELSE 0 - txn.invQty IN
      [s |-> addLog([s EXCEPT !.inventory[k].quantity = @ + qty],
                    txn.invId, "restore", qty, <<"Restore", txn.id>>),
       error |-> FALSE]

\* applyTransactionInventory with the stock check of script.js:248 made
\* after the quantity is lowered
applyTransactionInventoryLate(s, txn) ==
  IF txn.invId = NoId
  THEN [s |-> s, error |-> FALSE, txn |-> [txn EXCEPT !.invCost = 0]]
  ELSE LET k == ItemIndex(s, txn.invId) IN
    IF k = 0 THEN [s |-> s, error |-> TRUE, txn |-> txn]
    ELSE LET qty == IF txn.type = "revenue" THEN 0 - txn.invQty ELSE txn.invQty
             s1 == [s EXCEPT !.inventory[k].quantity = @ + qty] IN
      IF s1.inventory[k].quantity < 0 /\ txn.type = "revenue"
      THEN [s |-> s1, error |-> TRUE, txn |-> txn]
      ELSE [s |-> addLog(s1, txn.invId,
                         IF txn.type = "revenue" THEN "sale" ELSE "purchase",
                         qty, <<"tx", txn.id>>),
            error |-> FALSE,
            txn |-> [txn EXCEPT !.invCost =
                       IF txn.type = "revenue"
                       THEN s.inventory[k].unitPrice * txn.invQty ELSE 0]]

(* -------------------------- inventory helpers -------------------------- *)
\* both return [s |-> ledger after the call, error |-> BOOLEAN, txn |-> txn]
revertTransactionInventory(s, txn) ==
  IF txn.invId = NoId THEN [s |-> s, error |-> FALSE]
  ELSE LET k == ItemIndex(s, txn.invId) IN
    IF k = 0 THEN [s |-> s, error |-> TRUE]
    ELSE LET qty == txn.invQty IN
      IF txn.type = "revenue" THEN
        [s |-> addLog([s EXCEPT !.inventory[k].quantity = @ + qty],
                      txn.invId, "restore", qty,
                      <<"Restore from revert of sale tx", txn.id>>),
         error |-> FALSE]
      ELSE IF txn.type = "expense" THEN
        [s |-> addLog([s EXCEPT !.inventory[k].quantity = @ - qty],
                      txn.invId, "restore", 0 - qty,
                      <<"Restore (remove) from revert of purchase tx", txn.id>>),
         error |-> FALSE]
      ELSE [s |-> s, error |-> FALSE]

\* txn.invCost is assigned on the argument: the result carries the txn
applyTransactionInventory(s, txn) ==
  IF txn.invId = NoId
  THEN [s |-> s, error |-> FALSE, txn |-> [txn EXCEPT !.invCost = 0]]
  ELSE LET k == ItemIndex(s, txn.invId) IN
    IF k = 0 THEN [s |-> s, error |-> TRUE, txn |-> txn]
    ELSE LET qty == txn.invQty
             inv == s.inventory[k] IN
      IF txn.type = "revenue" THEN
        IF inv.quantity < qty THEN [s |-> s, error |-> TRUE, txn |-> txn]
        ELSE [s |-> addLog([s EXCEPT !.inventory[k].quantity = @ - qty],
                           txn.invId, "sale", 0 - qty, <<"Sale tx", txn.id>>),
              error |-> FALSE,
              txn |-> [txn EXCEPT !.invCost = inv.unitPrice * qty]]
      ELSE IF txn.type = "expense" THEN
        [s |-> addLog([s EXCEPT !.inventory[k].quantity = @ + qty],
                      txn.invId, "purchase", qty, <<"Purchase tx", txn.id>>),
         error |-> FALSE,
         txn |-> [txn EXCEPT !.invCost = 0]]
      ELSE [s |-> s, error |-> FALSE, txn |-> txn]

(* ------------------------- journal projections ------------------------- *)
\* Array.prototype.filter(j => j.txnId !== txnId)
DropTxn(js, txnId) == SelectSeq(js, LAMBDA j : j.txnId # txnId)

\* removeJournalEntriesForTxn without the filter of script.js:364
removeJournalEntriesKeepSales(s, txnId) ==
  renderGeneralJournal(
    [s EXCEPT !.purchasesJournal = DropTxn(@, txnId),
              !.cashDisbursements = DropTxn(@, txnId)])

removeJournalEntriesForTxn(s, txnId) ==
  renderGeneralJournal(
    [s EXCEPT !.purchasesJournal = DropTxn(@, txnId),
              !.salesJournal = DropTxn(@, txnId),
              !.cashDisbursements = DropTxn(@, txnId)])

\* the revenue branch, script.js:270-301
CreateSalesEntry(s, txn) ==
  LET entry == [id |-> uid(s),
                txnId |-> txn.id,
                date |-> txn.date,
                description |-> txn.description,
                amount |-> txn.amount,
                invId |-> txn.invId,
                invQty |-> txn.invQty,
                paymentMethod |-> txn.paymentMethod,
                paidAmount |-> IF txn.paymentMethod = "Cash" THEN txn.amount ELSE 0,
                paid |-> (txn.paymentMethod = "Cash")]
      s1 == [Tick(s) EXCEPT !.salesJournal = Unshift(@, entry)]
      receipt == [id |-> uid(s1),
                  date |-> txn.date,
                  from |-> entry.description,
                  amount |-> txn.amount,
                  saleId |-> entry.id,
                  note |-> "Cash sale (paid in full)"]
  IN IF entry.paid
     THEN [Tick(s1) EXCEPT !.cashReceipts = Unshift(@, receipt)]
     ELSE s1

\* the inventory-purchase branch without the disbursement of script.js:323-333
CreatePurchaseEntryNoDisbursement(s, txn) ==
  LET entry == [id |-> uid(s),
                txnId |-> txn.id,
                date |-> txn.date,
                description |-> txn.description,
                amount |-> txn.amount,
                invId |-> txn.invId,
                invQty |-> txn.invQty,
                paymentMethod |-> txn.paymentMethod,
                paidAmount |-> IF txn.paymentMethod = "Cash" THEN txn.amount ELSE 0,
                paid |-> (txn.paymentMethod = "Cash")]
  IN [Tick(s) EXCEPT !.purchasesJournal = Unshift(@, entry)]

\* the inventory-purchase branch, script.js:304-336
CreatePurchaseEntry(s, txn) ==
  LET entry == [id |-> uid(s),
                txnId |-> txn.id,
                date |-> txn.date,
                description |-> txn.description,
                amount |-> txn.amount,
                invId |-> txn.invId,
                invQty |-> txn.invQty,
                paymentMethod |-> txn.paymentMethod,
                paidAmount |-> IF txn.paymentMethod = "Cash" THEN txn.amount ELSE 0,
                paid |-> (txn.paymentMethod = "Cash")]
      s1 == [Tick(s) EXCEPT !.purchasesJournal = Unshift(@, entry)]
      disb == [id |-> uid(s1),
               date |-> txn.date,
               description |-> entry.description,
               amount |-> txn.amount,
               txnId |-> entry.txnId,
               note |-> "Cash purchase (paid in full)"]
  IN IF entry.paid
     THEN [Tick(s1) EXCEPT !.cashDisbursements = Unshift(@, disb)]
     ELSE s1

\* the regular-expense branch, script.js:337-350
CreateExpenseDisbursement(s, txn) ==
  LET entry == [id |-> uid(s),
                date |-> txn.date,
                description |-> txn.description,
                amount |-> txn.amount,
                txnId |-> txn.id,
                note |-> ""]
  IN [Tick(s) EXCEPT !.cashDisbursements = Unshift(@, entry)]

createJournalFromTransaction(s, txn) ==
  IF txn.id = NoId THEN s
  ELSE LET s0 == removeJournalEntriesForTxn(s, txn.id) IN
    renderGeneralJournal(
      IF txn.type = "revenue" THEN CreateSalesEntry(s0, txn)
      ELSE IF txn.type = "expense" THEN
        IF txn.invId # NoId THEN CreatePurchaseEntry(s0, txn)
        ELSE CreateExpenseDisbursement(s0, txn)
      ELSE s0)

\* the fields script.js:386-396 (and 423-433) patch on the entry of the
\* edited transaction, before the paid/clamp logic
PatchEntry(j, txn) ==
  [j EXCEPT !.date = txn.date,
            !.description = txn.description,
            !.amount = txn.amount,
            !.invQty = txn.invQty,
            !.invId = txn.invId,
            !.paymentMethod = txn.paymentMethod,
            !.paid = (j.paidAmount >= txn.amount)]

\* SettleOrClamp without the clamp of script.js:414 / 450
SettleOrClampNoClamp(j) ==
  IF j.paymentMethod = "Cash" /\ ~j.paid
  THEN IF Max(0, j.amount - j.paidAmount) > 0
       THEN [j EXCEPT !.paidAmount = j.amount, !.paid = TRUE]
       ELSE j
  ELSE [j EXCEPT !.paid = (j.paidAmount >= j.amount)]

\* what script.js:398-416 (and 435-452) make of a patched entry j:
\* Cash and unpaid is settled in full, otherwise paidAmount is clamped
SettleOrClamp(j) ==
  IF j.paymentMethod = "Cash" /\ ~j.paid
  THEN IF Max(0, j.amount - j.paidAmount) > 0
       THEN [j EXCEPT !.paidAmount = j.amount, !.paid = TRUE]
       ELSE j
  ELSE LET pa == IF j.paidAmount > j.amount THEN j.amount ELSE j.paidAmount
       IN [j EXCEPT !.paidAmount = pa, !.paid = (pa >= j.amount)]

\* the amount script.js:400 records for a forced settlement (0: none)
PayLeft(j) ==
  IF j.paymentMethod = "Cash" /\ ~j.paid
  THEN Max(0, j.amount - j.paidAmount) ELSE 0

\* purchasesJournal.forEach of script.js:384-418, from index i on
RECURSIVE UpdatePurchases(_, _, _)
UpdatePurchases(s, txn, i) ==
  IF i > Len(s.purchasesJournal) THEN s
  ELSE LET j == s.purchasesJournal[i] IN
    IF j.txnId # txn.id THEN UpdatePurchases(s, txn, i + 1)
    ELSE LET p == PatchEntry(j, txn)
             s1 == [s EXCEPT !.purchasesJournal[i] = SettleOrClamp(p)]
             disb == [id |-> uid(s1),
                      date |-> txn.date,
                      description |-> p.description,
                      amount |-> PayLeft(p),
                      txnId |-> p.txnId,
                      note |-> "Marked paid on edit (diff)"]
             s2 == IF PayLeft(p) > 0
                   THEN [Tick(s1) EXCEPT !.cashDisbursements = Unshift(@, disb)]
                   ELSE s1
         IN UpdatePurchases(s2, txn, i + 1)

\* salesJournal.forEach of script.js:421-454, from index i on
RECURSIVE UpdateSales(_, _, _)
UpdateSales(s, txn, i) ==
  IF i > Len(s.salesJournal) THEN s
  ELSE LET j == s.salesJournal[i] IN
    IF j.txnId # txn.id THEN UpdateSales(s, txn, i + 1)
    ELSE LET p == PatchEntry(j, txn)
             s1 == [s EXCEPT !.salesJournal[i] = SettleOrClamp(p)]
             receipt == [id |-> uid(s1),
                         date |-> txn.date,
                         from |-> p.description,
                         amount |-> PayLeft(p),
                         saleId |-> p.id,
                         note |-> "Marked paid on edit (diff)"]
             s2 == IF PayLeft(p) > 0
                   THEN [Tick(s1) EXCEPT !.cashReceipts = Unshift(@, receipt)]
                   ELSE s1
         IN UpdateSales(s2, txn, i + 1)

\* cashDisbursements.forEach of script.js:457-463
UpdateDisbursements(s, txn) ==
  [s EXCEPT !.cashDisbursements =
     [i \in 1..Len(@) |->
        IF @[i].txnId = txn.id
        THEN [@[i] EXCEPT !.date = txn.date,
                          !.description = txn.description,
                          !.amount = txn.amount]
        ELSE @[i]]]

updateJournalFromTxn(s, txn) ==
  IF txn.id = NoId THEN s
  ELSE renderGeneralJournal(
         UpdateDisbursements(UpdateSales(UpdatePurchases(s, txn, 1), txn, 1), txn))

(* -------------------------- transaction flows -------------------------- *)
TxnIndex(s, id) == FirstIn(s.transactions, {x \in Range(s.transactions) : x.id = id})

\* Array.prototype.splice(idx, 1)
RemoveAt(q, idx) == [i \in 1..(Len(q) - 1) |-> IF i < idx THEN q[i] ELSE q[i + 1]]

addTransaction(s, txn) ==
  createJournalFromTransaction([s EXCEPT !.transactions = Append(@, txn)], txn)

\* the cascade with every receipt dropped once the sale is found
DeleteCascadeAllReceipts(s, id, idx) ==
  LET si == FirstIn(s.salesJournal, {j \in Range(s.salesJournal) : j.txnId = id})
  IN renderGeneralJournal(
       [s EXCEPT !.cashReceipts = IF si # 0 THEN <<>> ELSE @,
                 !.transactions = RemoveAt(@, idx),
                 !.purchasesJournal = DropTxn(@, id),
                 !.salesJournal = DropTxn(@, id),
                 !.cashDisbursements = DropTxn(@, id)])

\* the cascade without the receipts filter of script.js:691-694
DeleteCascadeKeepReceipts(s, id, idx) ==
  renderGeneralJournal(
    [s EXCEPT !.transactions = RemoveAt(@, idx),
              !.purchasesJournal = DropTxn(@, id),
              !.salesJournal = DropTxn(@, id),
              !.cashDisbursements = DropTxn(@, id)])

\* script.js:691-719: the cascade once the inventory has been reverted
DeleteCascade(s, id, idx) ==
  LET si == FirstIn(s.salesJournal, {j \in Range(s.salesJournal) : j.txnId = id})
      pi == FirstIn(s.purchasesJournal, {j \in Range(s.purchasesJournal) : j.txnId = id})
      receipts == IF si # 0
                  THEN SelectSeq(s.cashReceipts,
                                 LAMBDA r : r.saleId # s.salesJournal[si].id)
                  ELSE s.cashReceipts
      disbs == IF pi # 0
               THEN DropTxn(s.cashDisbursements, s.purchasesJournal[pi].txnId)
               ELSE s.cashDisbursements
  IN renderGeneralJournal(
       [s EXCEPT !.cashReceipts = receipts,
                 !.transactions = RemoveAt(@, idx),
                 !.purchasesJournal = DropTxn(@, id),
                 !.salesJournal = DropTxn(@, id),
                 !.cashDisbursements = DropTxn(disbs, id)])

\* deleteTransaction without the confirm() of script.js:679-682
deleteTransactionUnasked(s, id, ok) ==
  LET idx == TxnIndex(s, id) IN
  IF idx = 0 THEN [s |-> s, res |-> "not_found", asked |-> FALSE]
  ELSE LET r == revertTransactionInventory(s, s.transactions[idx]) IN
    IF ItemIndex(s, s.transactions[idx].invId) # 0 /\ ~r.error
    THEN [s |-> DeleteCascade(r.s, id, idx), res |-> "ok", asked |-> FALSE]
    ELSE [s |-> DeleteCascade(s, id, idx), res |-> "ok", asked |-> FALSE]

\* deleteTransaction(id); `ok` is the answer to confirm() should it be asked.
\* Result: the ledger, how the call ended, whether confirm() was shown.
deleteTransaction(s, id, ok) ==
  LET idx == TxnIndex(s, id) IN
  IF idx = 0 THEN [s |-> s, res |-> "not_found", asked |-> FALSE]
  ELSE LET txn == s.transactions[idx]
           k == IF txn.invId # NoId THEN ItemIndex(s, txn.invId) ELSE 0
       IN
    IF k # 0 THEN
      LET q == s.inventory[k].quantity
          newQty == IF txn.type = "revenue" THEN q + txn.invQty
                    ELSE IF txn.type = "expense" THEN q - txn.invQty
                    ELSE q
          asked == (txn.type = "expense" /\ newQty < 0)
          r == revertTransactionInventory(s, txn)
      IN IF asked /\ ~ok THEN [s |-> s, res |-> "declined", asked |-> TRUE]
         ELSE IF r.error THEN [s |-> s, res |-> "revert_error", asked |-> asked]
         ELSE [s |-> DeleteCascade(r.s, id, idx), res |-> "ok", asked |-> asked]
    ELSE [s |-> DeleteCascade(s, id, idx), res |-> "ok", asked |-> FALSE]

\* the object literal of script.js:763-776 and 815-828 (invCost 0, date now)
NewTxn(s, id, f) ==
  [id |-> id,
   description |-> f.description,
   amount |-> f.amount,
   type |-> f.type,
   invId |-> f.invId,
   invQty |-> IF f.invId # NoId THEN f.invQty ELSE 0,
   invCost |-> 0,
   paymentMethod |-> f.paymentMethod,
   date |-> nowISO(s)]

\* script.js:750-751: the form is rejected before anything is touched
FormInvalid(f) ==
  \/ f.description = NoDesc
  \/ f.amount <= 0
  \/ (f.invId # NoId /\ f.invQty <= 0)

\* the edit branch with an 'edit' audit entry written once the new values
\* are stored, the entry script.js:800-801 says not to add
EditTransactionLogged(s, eid, snap, f) ==
  LET idx == TxnIndex(s, eid) IN
  IF idx = 0 THEN [s |-> s, res |-> "not_found"]
  ELSE
    LET rv == IF snap # <<>> /\ snap[1].invId # NoId
              THEN revertTransactionInventory(s, snap[1])
              ELSE [s |-> s, error |-> FALSE]
    IN
    IF rv.error THEN [s |-> s, res |-> "revert_error"]
    ELSE
      LET newTxn == NewTxn(rv.s, s.transactions[idx].id, f)
          ap == applyTransactionInventory(rv.s, newTxn)
      IN
      IF ap.error THEN
        IF snap # <<>> THEN
          LET rb == applyTransactionInventory(ap.s, snap[1]) IN
          IF rb.error THEN [s |-> rb.s, res |-> "rollback_failed"]
          ELSE [s |-> rb.s, res |-> "cancelled"]
        ELSE [s |-> ap.s, res |-> "cancelled"]
      ELSE
        LET s1 == [ap.s EXCEPT !.transactions[idx] = ap.txn]
            s2 == IF ap.txn.invId # NoId
                  THEN addLog(s1, ap.txn.invId, "edit", ap.txn.invQty,
                              <<"Edit tx", ap.txn.id>>)
                  ELSE s1
        IN [s |-> updateJournalFromTxn(s2, ap.txn), res |-> "ok"]

\* script.js:753-812, the edit branch of commitTransactionForm.
\* eid is editId, snap is originalTxnSnapshot (<<>> or <<t>>), f the form.
\* Result: the ledger and how the call ended.
EditTransaction(s, eid, snap, f) ==
  LET idx == TxnIndex(s, eid) IN
  IF idx = 0 THEN [s |-> s, res |-> "not_found"]
  ELSE
    LET rv == IF snap # <<>> /\ snap[1].invId # NoId
              THEN revertTransactionInventory(s, snap[1])
              ELSE [s |-> s, error |-> FALSE]
    IN
    IF rv.error THEN [s |-> s, res |-> "revert_error"]
    ELSE
      LET newTxn == NewTxn(rv.s, s.transactions[idx].id, f)
          ap == applyTransactionInventory(rv.s, newTxn)
      IN
      IF ap.error THEN
        IF snap # <<>> THEN
          LET rb == applyTransactionInventory(ap.s, snap[1]) IN
          IF rb.error THEN [s |-> rb.s, res |-> "rollback_failed"]
          ELSE [s |-> rb.s, res |-> "cancelled"]
        ELSE [s |-> ap.s, res |-> "cancelled"]
      ELSE
        LET s1 == [ap.s EXCEPT !.transactions[idx] = ap.txn]
        IN [s |-> updateJournalFromTxn(s1, ap.txn), res |-> "ok"]

\* the create branch without the early return of script.js:832
CreateTransactionNoReturn(s, f) ==
  LET newTxn == NewTxn(Tick(s), uid(s), f)
      ap == applyTransactionInventory(Tick(s), newTxn)
  IN [s |-> addTransaction(ap.s, ap.txn),
      res |-> IF ap.error THEN "apply_error" ELSE "ok"]

\* script.js:814-838, the create branch of commitTransactionForm
CreateTransaction(s, f) ==
  LET newTxn == NewTxn(Tick(s), uid(s), f)
      ap == applyTransactionInventory(Tick(s), newTxn)
  IN IF ap.error THEN [s |-> s, res |-> "apply_error"]
     ELSE [s |-> addTransaction(ap.s, ap.txn), res |-> "ok"]

\* what localStorage holds after each saveAll that a create of form f on
\* ledger s runs, in the order the saves are made: addLog's (script.js:138)
\* and applyTransactionInventory's (258) when the form is linked, then
\* addTransaction's (656), createJournalFromTransaction's after the journal
\* entry (285, 319 or 349) and after its receipt or disbursement (298, 331),
\* and commitTransactionForm's (836)
CreateSaves(s, f) ==
  LET newTxn == NewTxn(Tick(s), uid(s), f)
      ap == applyTransactionInventory(Tick(s), newTxn)
      pushed == [ap.s EXCEPT !.transactions = Append(@, ap.txn)]
      done == addTransaction(ap.s, ap.txn)
      mirrored == /\ ap.txn.paymentMethod = "Cash"
                  /\ (ap.txn.type = "revenue" \/ ap.txn.invId # NoId)
      entered == IF mirrored
                 THEN [done EXCEPT !.cashReceipts = pushed.cashReceipts,
                                   !.cashDisbursements = pushed.cashDisbursements,
                                   !.clock = @ - 1]
                 ELSE done
  IN IF ap.error THEN <<>>
     ELSE (IF ap.txn.invId # NoId THEN <<ap.s, ap.s>> ELSE <<>>)
          \o <<pushed, entered, done, done>>

(* ----------------------------- stock form ------------------------------ *)
\* handleStockAdjust, action 'add' (script.js:1050-1070): a purchase at the
\* item's unit price
StockAdd(s, k, qty, paymentMethod) ==
  LET it == s.inventory[k]
      newTxn == [id |-> uid(s),
                 description |-> StockDesc,
                 amount |-> it.unitPrice * qty,
                 type |-> "expense",
                 invId |-> it.id,
                 invQty |-> qty,
                 invCost |-> 0,
                 paymentMethod |-> paymentMethod,
                 date |-> nowISO(Tick(s))]
      ap == applyTransactionInventory(Tick(s), newTxn)
  IN IF ap.error THEN [s |-> s, res |-> "apply_error"]
     ELSE [s |-> addTransaction(ap.s, ap.txn), res |-> "ok"]

\* StockRemove without the addLog of script.js:1077
StockRemoveUnlogged(s, k, qty, ok) ==
  LET asked == s.inventory[k].quantity < qty IN
  IF asked /\ ~ok THEN [s |-> s, res |-> "declined", asked |-> TRUE]
  ELSE [s |-> [s EXCEPT !.inventory[k].quantity = @ - qty],
        res |-> "ok", asked |-> asked]

\* handleStockAdjust, action 'remove' (script.js:1071-1080); `ok` answers
\* confirm() should it be asked
StockRemove(s, k, qty, ok) ==
  LET asked == s.inventory[k].quantity < qty IN
  IF asked /\ ~ok THEN [s |-> s, res |-> "declined", asked |-> TRUE]
  ELSE [s |-> addLog([s EXCEPT !.inventory[k].quantity = @ - qty],
                     s.inventory[k].id, "manual", 0 - qty, <<"Manual remove", NoId>>),
        res |-> "ok", asked |-> asked]

(* ------------------------------ payments ------------------------------- *)
\* PayAmount without the Math.min of script.js:1093
PayAmountUnclamped(j, amount) ==
  IF amount = <<>> THEN Max(0, j.amount - j.paidAmount) ELSE amount[1]

\* `amount` is <<>> for null (pay in full) or <<a>>
PayAmount(j, amount) ==
  LET remaining == Max(0, j.amount - j.paidAmount)
  IN Min(IF amount = <<>> THEN remaining ELSE amount[1], remaining)

\* script.js:1096-1097 (and 1124-1125)
Settle(j, payAmt) ==
  [j EXCEPT !.paidAmount = j.paidAmount + payAmt,
            !.paid = (j.paidAmount + payAmt >= j.amount)]

\* markSalePaid without the 'Nothing to pay' return of script.js:1094
markSalePaidNoReject(s, saleId, amount) ==
  LET i == FirstIn(s.salesJournal, {j \in Range(s.salesJournal) : j.id = saleId}) IN
  IF i = 0 THEN [s |-> s, res |-> "not_found"]
  ELSE LET payAmt == PayAmount(s.salesJournal[i], amount)
           sale == Settle(s.salesJournal[i], payAmt)
           receipt == [id |-> uid(s),
                       date |-> nowISO(Tick(s)),
                       from |-> sale.description,
                       amount |-> payAmt,
                       saleId |-> sale.id,
                       note |-> IF sale.paid THEN "Paid in full"
                                ELSE "Partial payment"]
       IN [s |-> renderGeneralJournal(
                   [Tick(s) EXCEPT !.salesJournal[i] = sale,
                                   !.cashReceipts = Unshift(@, receipt)]),
           res |-> IF payAmt <= 0 THEN "nothing" ELSE "ok"]

\* markSalePaid settling every sale of the journal in full
markSalePaidAll(s, saleId, amount) ==
  LET i == FirstIn(s.salesJournal, {j \in Range(s.salesJournal) : j.id = saleId}) IN
  IF i = 0 THEN [s |-> s, res |-> "not_found"]
  ELSE LET payAmt == PayAmount(s.salesJournal[i], amount) IN
    IF payAmt <= 0 THEN [s |-> s, res |-> "nothing"]
    ELSE LET receipt == [id |-> uid(s),
                         date |-> nowISO(Tick(s)),
                         from |-> s.salesJournal[i].description,
                         amount |-> payAmt,
                         saleId |-> saleId,
                         note |-> "Paid in full"]
         IN [s |-> renderGeneralJournal(
                     [Tick(s) EXCEPT
                        !.salesJournal =
                           [k \in 1..Len(s.salesJournal) |->
                              [s.salesJournal[k] EXCEPT
                                 !.paidAmount = s.salesJournal[k].amount,
                                 !.paid = TRUE]],
                        !.cashReceipts = Unshift(@, receipt)]),
             res |-> "ok"]

markSalePaid(s, saleId, amount) ==
  LET i == FirstIn(s.salesJournal, {j \in Range(s.salesJournal) : j.id = saleId}) IN
  IF i = 0 THEN [s |-> s, res |-> "not_found"]
  ELSE LET payAmt == PayAmount(s.salesJournal[i], amount) IN
    IF payAmt <= 0 THEN [s |-> s, res |-> "nothing"]
    ELSE LET sale == Settle(s.salesJournal[i], payAmt)
             receipt == [id |-> uid(s),
                         date |-> nowISO(Tick(s)),
                         from |-> sale.description,
                         amount |-> payAmt,
                         saleId |-> sale.id,
                         note |-> IF sale.paid THEN "Paid in full"
                                  ELSE "Partial payment"]
         IN [s |-> renderGeneralJournal(
                     [Tick(s) EXCEPT !.salesJournal[i] = sale,
                                     !.cashReceipts = Unshift(@, receipt)]),
             res |-> "ok"]

\* paySupplier recording the requested amount, not the settled one
paySupplierRequested(s, purchaseId, amount) ==
  LET i == FirstIn(s.purchasesJournal,
                   {j \in Range(s.purchasesJournal) : j.id = purchaseId}) IN
  IF i = 0 THEN [s |-> s, res |-> "not_found"]
  ELSE LET payAmt == PayAmount(s.purchasesJournal[i], amount) IN
    IF payAmt <= 0 THEN [s |-> s, res |-> "nothing"]
    ELSE LET p == Settle(s.purchasesJournal[i], payAmt)
             disb == [id |-> uid(s),
                      date |-> nowISO(Tick(s)),
                      description |-> p.description,
                      amount |-> PayAmountUnclamped(s.purchasesJournal[i], amount),
                      txnId |-> p.txnId,
                      note |-> IF p.paid THEN "Paid in full"
                               ELSE "Partial payment"]
         IN [s |-> renderGeneralJournal(
                     [Tick(s) EXCEPT !.purchasesJournal[i] = p,
                                     !.cashDisbursements = Unshift(@, disb)]),
             res |-> "ok"]

paySupplier(s, purchaseId, amount) ==
  LET i == FirstIn(s.purchasesJournal,
                   {j \in Range(s.purchasesJournal) : j.id = purchaseId}) IN
  IF i = 0 THEN [s |-> s, res |-> "not_found"]
  ELSE LET payAmt == PayAmount(s.purchasesJournal[i], amount) IN
    IF payAmt <= 0 THEN [s |-> s, res |-> "nothing"]
    ELSE LET p == Settle(s.purchasesJournal[i], payAmt)
             disb == [id |-> uid(s),
                      date |-> nowISO(Tick(s)),
                      description |-> p.description,
                      amount |-> payAmt,
                      txnId |-> p.txnId,
                      note |-> IF p.paid THEN "Paid in full"
                               ELSE "Partial payment"]
         IN [s |-> renderGeneralJournal(
                     [Tick(s) EXCEPT !.purchasesJournal[i] = p,
                                     !.cashDisbursements = Unshift(@, disb)]),
             res |-> "ok"]

(* ------------------------------ item form ------------------------------- *)
\* ItemCreate without the addLog of script.js:1242
ItemCreateNoLog(s, price, qtyStart) ==
  [Tick(s) EXCEPT !.inventory =
     Append(@, [id |-> uid(s), unitPrice |-> price, quantity |-> qtyStart])]

\* inventoryForm submit, new item (script.js:1239-1243)
ItemCreate(s, price, qtyStart) ==
  LET id == uid(s)
      s1 == [Tick(s) EXCEPT !.inventory =
               Append(@, [id |-> id, unitPrice |-> price, quantity |-> qtyStart])]
  IN IF qtyStart # 0
     THEN addLog(s1, id, "manual", qtyStart, <<"Initial stock on item creation", NoId>>)
     ELSE s1

\* the item form's edit branch also repricing the stored sales of the item
ItemEditRepricing(s, id, price, qtyStart) ==
  LET k == ItemIndex(s, id) IN
  IF k = 0 THEN s
  ELSE LET s1 == [s EXCEPT !.inventory[k].unitPrice = price,
                           !.transactions =
                              [i \in 1..Len(s.transactions) |->
                                 LET x == s.transactions[i] IN
                                 IF x.type = "revenue" /\ x.invId = id
                                 THEN [x EXCEPT !.invCost = price * x.invQty]
                                 ELSE x]]
       IN
    IF s.inventory[k].quantity # qtyStart
    THEN addLog([s1 EXCEPT !.inventory[k].quantity = qtyStart],
                id, "manual", qtyStart - s.inventory[k].quantity,
                <<"Edit item starting qty adjusted", NoId>>)
    ELSE s1

\* inventoryForm submit while editingInventoryId is set (script.js:1228-1238)
ItemEdit(s, id, price, qtyStart) ==
  LET k == ItemIndex(s, id) IN
  IF k = 0 THEN s
  ELSE LET s1 == [s EXCEPT !.inventory[k].unitPrice = price] IN
    IF s.inventory[k].quantity # qtyStart
    THEN addLog([s1 EXCEPT !.inventory[k].quantity = qtyStart],
                id, "manual", qtyStart - s.inventory[k].quantity,
                <<"Edit item starting qty adjusted", NoId>>)
    ELSE s1

\* the .inv-del handler clearing the whole audit log
ItemDeleteAllLogs(s, id) ==
  [s EXCEPT !.logs = <<>>,
            !.inventory = SelectSeq(@, LAMBDA x : x.id # id)]

\* the .inv-del handler (script.js:897-909)
ItemDelete(s, id) ==
  [s EXCEPT !.logs = SelectSeq(@, LAMBDA l : l.itemId # id),
            !.inventory = SelectSeq(@, LAMBDA x : x.id # id)]

(* ------------------------------- actions ------------------------------- *)
\* the arrays and the clock after a handler has run on ledger s
Commit(s) ==
  /\ s.clock <= MaxUid + 1
  /\ Len(s.logs) <= MaxLogs
  /\ transactions' = s.transactions
  /\ inventory' = s.inventory
  /\ logs' = s.logs
  /\ purchasesJournal' = s.purchasesJournal
  /\ salesJournal' = s.salesJournal
  /\ cashReceipts' = s.cashReceipts
  /\ cashDisbursements' = s.cashDisbursements
  /\ generalJournal' = s.generalJournal
  /\ clock' = s.clock

\* the handler that ran, how it ended, the transaction or journal entry it
\* was called for, whether it showed confirm() and whether that was accepted
Outcome(op, res, id, asked, ok) ==
  [op |-> op, res |-> res, id |-> id, asked |-> asked, ok |-> ok]

ItemIds == {it.id : it \in Range(inventory)}
TxnIds == {x.id : x \in Range(transactions)}

\* what the transaction form can hold when it is submitted, with amounts As,
\* payment methods Ms and quantities Qs typed in: the item select offers the
\* current items and '' (fillInventorySelects, script.js:949-963)
FormsOver(As, Ms, Qs) ==
  {f \in [description : Descriptions \cup {NoDesc},
          amount : As,
          type : Types,
          invId : ItemIds \cup {NoId},
          invQty : Qs,
          paymentMethod : Ms] :
     /\ f.invId = NoId => f.invQty = 0
     \* one rejected form per rejected field is enough: a rejected form
     \* is not looked at further
     /\ f.description = NoDesc => (f.type = "revenue" /\ f.invId = NoId)
     /\ f.amount = 0 => (f.type = "revenue" /\ f.invId = NoId)}

Forms == FormsOver(0..MaxAmount, Methods, 0..MaxQty)

\* the amounts a payment can be called with: null (Pay in full) or the
\* number typed into the prompt (script.js:551-566, 505-520)
PayInputs == {<<>>} \cup {<<a>> : a \in Amounts}

Init ==
  /\ transactions = <<>>
  /\ inventory = <<>>
  /\ logs = <<>>
  /\ purchasesJournal = <<>>
  /\ salesJournal = <<>>
  /\ cashReceipts = <<>>
  /\ cashDisbursements = <<>>
  /\ generalJournal = <<>>
  /\ editId = NoId
  /\ originalTxnSnapshot = <<>>
  /\ clock = 1
  /\ last = Outcome("init", "ok", NoId, FALSE, FALSE)

\* startEditTransaction(id), script.js:722-738
StartEditTransaction ==
  \E id \in TxnIds :
    /\ editId' = id
    /\ originalTxnSnapshot' = <<transactions[TxnIndex(Ledger, id)]>>
    /\ last' = Outcome("startEdit", "ok", id, FALSE, FALSE)
    /\ UNCHANGED <<ledgers, clock>>

\* resetTransactionForm, script.js:840-853 (the Reset button)
ResetTransactionForm ==
  /\ editId # NoId
  /\ editId' = NoId
  /\ originalTxnSnapshot' = <<>>
  /\ last' = Outcome("reset", "ok", NoId, FALSE, FALSE)
  /\ UNCHANGED <<ledgers, clock>>

\* commitTransactionForm with editId null, script.js:740-751 and 814-838,
\* the form holding one of F, while fewer than n transactions are stored
SubmitCreateUpTo(F, n) ==
  \E f \in F :
    /\ editId = NoId
    /\ IF FormInvalid(f)
       THEN /\ last' = Outcome("create", "invalid", NoId, FALSE, FALSE)
            /\ UNCHANGED <<ledgers, clock, editId, originalTxnSnapshot>>
       ELSE \E r \in {CreateTransaction(Ledger, f)} :
            /\ r.res = "ok" => (Len(transactions) < n /\ clock <= MaxUid)
            /\ Commit(r.s)
            /\ last' = Outcome("create", r.res, IF r.res = "ok" THEN uid(Ledger) ELSE NoId,
                             FALSE, FALSE)
            /\ IF r.res = "ok"
               THEN editId' = NoId /\ originalTxnSnapshot' = <<>>
               ELSE UNCHANGED <<editId, originalTxnSnapshot>>

\* commitTransactionForm with editId null and a valid form of F, the page
\* going away after one of the saveAll calls of the create and being opened
\* again: loadAll (script.js:93-108) reads what that saveAll stored, editId
\* and originalTxnSnapshot start as null (script.js:38-39), the General
\* Journal is rendered (script.js:1166)
StopDuringCreate(F) ==
  \E f \in F :
    /\ editId = NoId
    /\ ~FormInvalid(f)
    /\ Len(transactions) < MaxTxns /\ clock <= MaxUid
    /\ \E saved \in Range(CreateSaves(Ledger, f)) :
         /\ Commit(renderGeneralJournal(saved))
         /\ last' = Outcome("createStopped", "ok", uid(Ledger), FALSE, FALSE)
         /\ editId' = NoId
         /\ originalTxnSnapshot' = <<>>

SubmitCreate(F) == SubmitCreateUpTo(F, MaxTxns)

\* SubmitEdit without the reset of script.js:806-807 after the new values
\* are stored
SubmitEditKeepSession(F) ==
  \E f \in F :
    /\ editId # NoId
    /\ IF FormInvalid(f)
       THEN /\ last' = Outcome("edit", "invalid", editId, FALSE, FALSE)
            /\ UNCHANGED <<ledgers, clock, editId, originalTxnSnapshot>>
       ELSE \E r \in {EditTransaction(Ledger, editId, originalTxnSnapshot, f)} :
            /\ Commit(r.s)
            /\ last' = Outcome("edit", r.res, editId, FALSE, FALSE)
            /\ IF r.res \in {"cancelled", "rollback_failed"}
               THEN editId' = NoId /\ originalTxnSnapshot' = <<>>
               ELSE UNCHANGED <<editId, originalTxnSnapshot>>

\* commitTransactionForm with editId set, script.js:740-812
SubmitEdit(F) ==
  \E f \in F :
    /\ editId # NoId
    /\ IF FormInvalid(f)
       THEN /\ last' = Outcome("edit", "invalid", editId, FALSE, FALSE)
            /\ UNCHANGED <<ledgers, clock, editId, originalTxnSnapshot>>
       ELSE \E r \in {EditTransaction(Ledger, editId, originalTxnSnapshot, f)} :
            /\ Commit(r.s)
            /\ last' = Outcome("edit", r.res, editId, FALSE, FALSE)
            /\ IF r.res \in {"ok", "cancelled", "rollback_failed"}
               THEN editId' = NoId /\ originalTxnSnapshot' = <<>>
               ELSE UNCHANGED <<editId, originalTxnSnapshot>>

\* the Delete buttons, script.js:206-212 and 931-937, once their own
\* confirm() is accepted: deleteTransaction(id)
DeleteTransaction ==
  \E id \in TxnIds, ok \in BOOLEAN :
    \E r \in {deleteTransaction(Ledger, id, ok)} :
    /\ r.asked \/ ok
    /\ Commit(r.s)
    /\ last' = Outcome("delete", r.res, id, r.asked, r.asked /\ ok)
    /\ UNCHANGED <<editId, originalTxnSnapshot>>

\* the stock form with action 'add', script.js:1040-1070, while fewer than
\* n transactions are stored
StockAdjustAddUpTo(Qs, Ms, n) ==
  \E id \in ItemIds, qty \in Qs, pm \in Ms :
    /\ IF qty <= 0
       THEN /\ last' = Outcome("stockAdd", "invalid", NoId, FALSE, FALSE)
            /\ UNCHANGED <<ledgers, clock>>
       ELSE \E r \in {StockAdd(Ledger, ItemIndex(Ledger, id), qty, pm)} :
            /\ Len(transactions) < n /\ clock <= MaxUid
            /\ Commit(r.s)
            /\ last' = Outcome("stockAdd", r.res, uid(Ledger), FALSE, FALSE)
    /\ UNCHANGED <<editId, originalTxnSnapshot>>

StockAdjustAdd(Qs, Ms) == StockAdjustAddUpTo(Qs, Ms, MaxTxns)

\* the stock form with action 'remove', script.js:1040-1049 and 1071-1080
StockAdjustRemove(Qs) ==
  \E id \in ItemIds, qty \in Qs, ok \in BOOLEAN :
    /\ IF qty <= 0
       THEN /\ ok
            /\ last' = Outcome("stockRemove", "invalid", NoId, FALSE, FALSE)
            /\ UNCHANGED <<ledgers, clock>>
       ELSE \E r \in {StockRemove(Ledger, ItemIndex(Ledger, id), qty, ok)} :
            /\ r.asked \/ ok
            /\ Commit(r.s)
            /\ last' = Outcome("stockRemove", r.res, NoId, r.asked, r.asked /\ ok)
    /\ UNCHANGED <<editId, originalTxnSnapshot>>

\* markSalePaid(saleId, amount), script.js:1087-1112
MarkSalePaid ==
  \E id \in {j.id : j \in Range(salesJournal)} \cup {NoId}, a \in PayInputs :
    \E r \in {markSalePaid(Ledger, id, a)} :
    /\ Commit(r.s)
    /\ last' = Outcome("markSalePaid", r.res, id, FALSE, FALSE)
    /\ UNCHANGED <<editId, originalTxnSnapshot>>

\* paySupplier(purchaseId, amount), script.js:1115-1140
PaySupplier ==
  \E id \in {j.id : j \in Range(purchasesJournal)} \cup {NoId}, a \in PayInputs :
    \E r \in {paySupplier(Ledger, id, a)} :
    /\ Commit(r.s)
    /\ last' = Outcome("paySupplier", r.res, id, FALSE, FALSE)
    /\ UNCHANGED <<editId, originalTxnSnapshot>>

\* the item form submitted with editingInventoryId null, script.js:1219-1249,
\* while fewer than n items exist
SubmitItemCreateUpTo(Ps, Qs, n) ==
  \E price \in Ps, qtyStart \in Qs :
    /\ Len(inventory) < n /\ clock <= MaxUid
    /\ Commit(ItemCreate(Ledger, price, qtyStart))
    /\ last' = Outcome("itemCreate", "ok", NoId, FALSE, FALSE)
    /\ UNCHANGED <<editId, originalTxnSnapshot>>

SubmitItemCreate(Ps, Qs) == SubmitItemCreateUpTo(Ps, Qs, MaxItems)

\* the item form submitted after startEditInventory(id), script.js:1018-1028
\* and 1219-1249
SubmitItemEdit(Ps, Qs) ==
  \E id \in ItemIds, price \in Ps, qtyStart \in Qs :
    /\ Commit(ItemEdit(Ledger, id, price, qtyStart))
    /\ last' = Outcome("itemEdit", "ok", NoId, FALSE, FALSE)
    /\ UNCHANGED <<editId, originalTxnSnapshot>>

\* the item's Delete button, script.js:897-909, confirm() accepted
DeleteItem ==
  \E id \in ItemIds :
    /\ Commit(ItemDelete(Ledger, id))
    /\ last' = Outcome("itemDelete", "ok", NoId, FALSE, FALSE)
    /\ UNCHANGED <<editId, originalTxnSnapshot>>

(* ---------------------------- specifications --------------------------- *)
\* every handler with every input of the bounds
Next ==
  \/ StartEditTransaction
  \/ ResetTransactionForm
  \/ SubmitCreate(Forms)
  \/ SubmitEdit(Forms)
  \/ DeleteTransaction
  \/ StockAdjustAdd(0..MaxQty, Methods)
  \/ StockAdjustRemove(0..MaxQty)
  \/ MarkSalePaid
  \/ PaySupplier
  \/ SubmitItemCreate(Prices, 0..MaxQty)
  \/ SubmitItemEdit(Prices, 0..MaxQty)
  \/ DeleteItem

Spec == Init /\ [][Next]_vars

\* The inventory side, the money side narrowed: every transaction is entered
\* for the amount 1 on credit and no payments are made; items are created
\* at price 1 and never edited, and the stock form only removes.
StockForms == FormsOver({0, 1}, {"Credit"}, 0..MaxQty)

NextStock ==
  \/ StartEditTransaction
  \/ ResetTransactionForm
  \/ SubmitCreate(StockForms)
  \/ SubmitEdit(StockForms)
  \/ DeleteTransaction
  \/ StockAdjustRemove(0..MaxQty)
  \/ SubmitItemCreate({1}, 0..MaxQty)
  \/ DeleteItem

SpecStock == Init /\ [][NextStock]_vars

\* The money side in full, the inventory side narrowed: items are created at
\* price 1 with MaxQty units, stock moves only through transactions of one
\* unit, and items are neither edited nor deleted.
JournalForms == FormsOver(0..MaxAmount, Methods, {0, 1})

NextJournal ==
  \/ StartEditTransaction
  \/ ResetTransactionForm
  \/ SubmitCreate(JournalForms)
  \/ SubmitEdit(JournalForms)
  \/ DeleteTransaction
  \/ MarkSalePaid
  \/ PaySupplier
  \/ SubmitItemCreate({1}, {MaxQty})

SpecJournal == Init /\ [][NextJournal]_vars

\* createJournalFromTransaction(txn) called again for a stored transaction:
\* the page calls it once, from addTransaction; the projection's own guard
\* (script.js:267-268) is written for a second call
Reproject ==
  \E id \in TxnIds :
    /\ Commit(createJournalFromTransaction(Ledger, transactions[TxnIndex(Ledger, id)]))
    /\ last' = Outcome("reproject", "ok", id, FALSE, FALSE)
    /\ UNCHANGED <<editId, originalTxnSnapshot>>

\* the two projections alone: transactions are created, projected again
\* and edited
NextProj ==
  \/ StartEditTransaction
  \/ SubmitCreate(JournalForms)
  \/ SubmitEdit(JournalForms)
  \/ SubmitItemCreate({1}, {MaxQty})
  \/ Reproject

SpecProj == Init /\ [][NextProj]_vars

\* Two transactions side by side: up to MaxPair transactions are stored,
\* entered through the transaction form or the stock form, paid and
\* deleted, never edited; items are created at price 1 and are not removed.
PairForms == FormsOver(0..MaxAmount, Methods, {0, 1})

NextPair ==
  \/ SubmitCreateUpTo(PairForms, MaxPair)
  \/ StockAdjustAddUpTo({0, 1}, Methods, MaxPair)
  \/ DeleteTransaction
  \/ MarkSalePaid
  \/ PaySupplier
  \/ SubmitItemCreate({1}, {0, 1})

SpecPair == Init /\ [][NextPair]_vars

\* Two items side by side: up to MaxItemPair items are created, repriced,
\* recounted and deleted, stock is added and removed through the stock
\* form one unit at a time, and one credit transaction is entered.
ItemForms == FormsOver({1}, {"Credit"}, 0..MaxQty)

NextItems ==
  \/ SubmitItemCreateUpTo(Prices, {0, MaxQty}, MaxItemPair)
  \/ SubmitItemEdit(Prices, {1})
  \/ DeleteItem
  \/ StockAdjustAdd({1}, {"Credit"})
  \/ StockAdjustRemove({1})
  \/ SubmitCreate(ItemForms)

SpecItems == Init /\ [][NextItems]_vars

\* Edits that settle: items are created empty at price 1, transactions of
\* one unit are entered with every amount and payment method, paid and
\* edited, never deleted.
NextSettle ==
  \/ StartEditTransaction
  \/ SubmitCreate(JournalForms)
  \/ SubmitEdit(JournalForms)
  \/ MarkSalePaid
  \/ PaySupplier
  \/ SubmitItemCreate({1}, {0})

SpecSettle == Init /\ [][NextSettle]_vars

\* Creates that may be cut short: items are created at price 1, transactions
\* of one unit are entered, completely or up to one of the saves, and
\* deleted, and items are deleted.
NextStop ==
  \/ SubmitCreate(PairForms)
  \/ StopDuringCreate(PairForms)
  \/ DeleteTransaction
  \/ SubmitItemCreate({1}, {0, 1})
  \/ DeleteItem

SpecStop == Init /\ [][NextStop]_vars

\* An edit session with other work in between: up to MaxPair credit
\* transactions of one unit are entered, opened for editing, edited and
\* deleted while sales are settled, stock is removed and the item is
\* created, repriced, recounted and deleted.
SessionForms == FormsOver({1}, {"Credit"}, {0, 1})

NextSession ==
  \/ StartEditTransaction
  \/ SubmitCreateUpTo(SessionForms, MaxPair)
  \/ SubmitEdit(SessionForms)
  \/ DeleteTransaction
  \/ MarkSalePaid
  \/ StockAdjustRemove({1})
  \/ SubmitItemCreate({1}, {1})
  \/ SubmitItemEdit(Prices, {1})
  \/ DeleteItem

SpecSession == Init /\ [][NextSession]_vars

(* ------------------------------- claims -------------------------------- *)
journals == <<purchasesJournal, salesJournal, cashReceipts, cashDisbursements>>
quantities == [i \in 1..Len(inventory) |-> inventory[i].quantity]
JournalEntries == Range(purchasesJournal) \cup Range(salesJournal)

RECURSIVE SumAmounts(_)
SumAmounts(rows) ==
  IF rows = <<>> THEN 0 ELSE Head(rows).amount + SumAmounts(Tail(rows))

\* C1: an edit whose apply of the candidate fails leaves the stored
\* transactions, every item's quantity and the four journals as they were
\* before the edit was submitted.
C1_EditRollbackRestores ==
  [][(last'.op = "edit" /\ last'.res \in {"cancelled", "rollback_failed"})
       => /\ transactions' = transactions
          /\ quantities' = quantities
          /\ journals' = journals]_vars

\* C2: a create, edit or delete that ends with a validation rejection, an
\* insufficient-stock error or an item-missing error leaves all seven
\* persisted arrays exactly as they were (so an edit aborted for insufficient
\* stock adds no audit-log entry).
AbortedOutcome ==
  \/ last.op = "create" /\ last.res \in {"invalid", "apply_error"}
  \/ last.op = "edit" /\ last.res \in {"invalid", "revert_error", "cancelled"}
  \/ last.op = "delete" /\ last.res = "revert_error"

C2_AtomicAbort ==
  [][AbortedOutcome' => ledgers' = ledgers]_vars

\* C3: deleting a transaction whose inventory link points to an item that
\* no longer exists aborts: the transaction and all of its journal entries,
\* receipts and disbursements stay in the stores.
C3_DeleteWithMissingItemAborts ==
  [][(/\ last'.op = "delete"
      /\ \E x \in Range(transactions) :
           x.id = last'.id /\ x.invId # NoId /\ x.invId \notin ItemIds)
       => /\ transactions' = transactions
          /\ journals' = journals]_vars

\* C4: in a transaction delete, a transaction edit and a manual stock
\* removal, an item's quantity is driven below zero only if the caller
\* confirmed it in that same operation, and an operation whose confirmation
\* is declined changes none of the persisted arrays.
C4_NegativeStockGate ==
  [][/\ (/\ last'.op \in {"delete", "edit", "stockRemove"}
         /\ \E i \in 1..Len(inventory) :
              /\ i <= Len(inventory')
              /\ inventory'[i].id = inventory[i].id
              /\ inventory'[i].quantity < 0
              /\ inventory'[i].quantity < inventory[i].quantity)
          => last'.ok
     /\ last'.res = "declined" => ledgers' = ledgers]_vars

\* C5: every stored revenue transaction has exactly one Sales entry and no
\* Purchases entry, every inventory-linked expense exactly one Purchases
\* entry and no Sales entry, every other expense neither.
EntriesOf(js, id) == {i \in 1..Len(js) : js[i].txnId = id}

C5_JournalAlignment ==
  \A x \in Range(transactions) :
    LET p == Cardinality(EntriesOf(purchasesJournal, x.id))
        s == Cardinality(EntriesOf(salesJournal, x.id))
    IN IF x.type = "revenue" THEN s = 1 /\ p = 0
       ELSE IF x.invId # NoId THEN p = 1 /\ s = 0
       ELSE p = 0 /\ s = 0

\* C6: a Cash Receipt or Cash Disbursement record keeps all of its fields
\* for as long as it exists; in particular the disbursements of payments on
\* a purchase keep their amounts when the purchase is edited.  (The bare
\* disbursement of a regular expense, note '', is the record script.js:456
\* patches on purpose and is left out.)
C6_CashRecordsNeverEdited ==
  [][/\ \A r \in Range(cashReceipts) :
          (\E q \in Range(cashReceipts') : q.id = r.id)
            => r \in Range(cashReceipts')
     /\ \A d \in Range(cashDisbursements) :
          (d.note # "" /\ \E q \in Range(cashDisbursements') : q.id = d.id)
            => d \in Range(cashDisbursements')]_vars

\* C7: every Purchases and Sales entry has 0 <= paidAmount <= amount in
\* every reachable state, and an edit that lowers the amount below the paid
\* total leaves paidAmount equal to the new amount.
PaidWithinAmount ==
  \A j \in JournalEntries : 0 <= j.paidAmount /\ j.paidAmount <= j.amount

ClampedOnEdit(js, js2, id) ==
  \A i \in 1..Len(js) :
    (js[i].txnId = id /\ js[i].paidAmount > js2[i].amount)
      => js2[i].paidAmount = js2[i].amount

C7_PaidAmountBounded ==
  /\ []PaidWithinAmount
  /\ [][(last'.op = "edit" /\ last'.res = "ok")
          => /\ ClampedOnEdit(salesJournal, salesJournal', last'.id)
             /\ ClampedOnEdit(purchasesJournal, purchasesJournal', last'.id)]_vars

\* an edit has just clamped a credit sale: more was received than it is
\* now worth
C7_Witness ==
  /\ last.op = "edit" /\ last.res = "ok"
  /\ \E j \in Range(salesJournal) :
       /\ j.txnId = last.id
       /\ j.paymentMethod = "Credit"
       /\ j.paidAmount = j.amount
       /\ SumAmounts(SelectSeq(cashReceipts, LAMBDA r : r.saleId = j.id)) > j.amount

\* C8: for every transaction id there is at most one Purchases entry and at
\* most one Sales entry, also after the create projection has run again
\* and after the edit projection.
C8_OneEntryPerTxn ==
  /\ \A i, k \in 1..Len(purchasesJournal) :
       purchasesJournal[i].txnId = purchasesJournal[k].txnId => i = k
  /\ \A i, k \in 1..Len(salesJournal) :
       salesJournal[i].txnId = salesJournal[k].txnId => i = k

\* the create projection has just run a second time for a transaction that
\* has a journal entry
C8_Witness ==
  /\ last.op = "reproject"
  /\ \E j \in JournalEntries : j.txnId = last.id

\* C9: createJournalFromTransaction run a second time, right after the
\* first, for the same transaction leaves the number of rows of Purchases,
\* Sales, Cash Receipts and Cash Disbursements as the first call left them.
rowCounts == <<Len(purchasesJournal), Len(salesJournal),
               Len(cashReceipts), Len(cashDisbursements)>>

C9_ReprojectKeepsRowCounts ==
  [][(/\ last'.op = "reproject"
      /\ last.op = "create" /\ last.res = "ok"
      /\ last'.id = last.id)
       => rowCounts' = rowCounts]_vars

\* C10: a create that fails in applyTransactionInventory appends no
\* transaction, creates no journal, receipt or disbursement row and leaves
\* every item's quantity unchanged.
C10_CreateAbort ==
  [][(last'.op = "create" /\ last'.res = "apply_error")
       => /\ transactions' = transactions
          /\ journals' = journals
          /\ inventory' = inventory]_vars

\* a sale of more units than the item holds has just been refused
C10_Witness ==
  /\ last.op = "create" /\ last.res = "apply_error"
  /\ inventory # <<>>

\* the transactions applyTransactionInventory is called with: the form's
\* candidate, the snapshot of the edit's rollback, and what is stored
ApplyInputs ==
  Range(transactions) \cup Range(originalTxnSnapshot)
    \cup {NewTxn(Ledger, clock, f) : f \in StockForms}

\* C11: whenever applyTransactionInventory returns an error, every item's
\* quantity and the whole audit log are as they were before the call.
C11_NoPartialFailure ==
  \A t \in ApplyInputs :
    LET r == applyTransactionInventory(Ledger, t)
    IN r.error => (r.s.inventory = inventory /\ r.s.logs = logs)

\* a create has just been refused by applyTransactionInventory while the
\* audit log holds entries
C11_Witness ==
  /\ last.op = "create" /\ last.res = "apply_error"
  /\ logs # <<>>
  /\ \E t \in ApplyInputs :
       t.invId \in ItemIds /\ applyTransactionInventory(Ledger, t).error

\* C12: for an item with quantity q and a transaction linked to it with
\* quantity d > 0 (d <= q for a sale), applying and then reverting the
\* transaction leaves the quantity q and adds exactly two audit entries
\* for that item whose qtyChange values sum to zero.
C12_ApplyRevertInverse ==
  \A f \in StockForms :
    (/\ f.invId \in ItemIds
     /\ f.invQty > 0
     /\ f.type = "revenue"
          => f.invQty <= inventory[ItemIndex(Ledger, f.invId)].quantity)
      => LET a == applyTransactionInventory(Ledger, NewTxn(Ledger, clock, f))
             r == revertTransactionInventory(a.s, a.txn)
         IN /\ ~a.error /\ ~r.error
            /\ r.s.inventory = inventory
            /\ Len(r.s.logs) = Len(logs) + 2
            /\ SubSeq(r.s.logs, 3, Len(r.s.logs)) = logs
            /\ r.s.logs[1].itemId = f.invId
            /\ r.s.logs[2].itemId = f.invId
            /\ r.s.logs[1].qtyChange + r.s.logs[2].qtyChange = 0

\* a transaction was applied by its create and reverted by its delete, one
\* right after the other, and the item still holds stock for a sale
C12_Witness ==
  /\ last.op = "delete" /\ last.res = "ok"
  /\ Len(logs) >= 2
  /\ logs[1].action = "restore"
  /\ logs[2].action \in {"sale", "purchase"}
  /\ \E it \in Range(inventory) : it.quantity >= 1

\* C13: after a successful deleteTransaction(id) no transaction has that id,
\* no Purchases or Sales entry and no disbursement has txnId = id, no
\* receipt points to the deleted transaction's Sales entry, the linked
\* item's quantity is reverted by invQty, and every other row is untouched.
C13_DeleteCascade ==
  [][(last'.op = "delete" /\ last'.res = "ok")
       => LET id == last'.id
              x == transactions[TxnIndex(Ledger, id)]
              saleIds == {j.id : j \in {e \in Range(salesJournal) : e.txnId = id}}
          IN /\ transactions' = SelectSeq(transactions, LAMBDA y : y.id # id)
             /\ purchasesJournal' = SelectSeq(purchasesJournal, LAMBDA j : j.txnId # id)
             /\ salesJournal' = SelectSeq(salesJournal, LAMBDA j : j.txnId # id)
             /\ cashDisbursements' = SelectSeq(cashDisbursements, LAMBDA d : d.txnId # id)
             /\ cashReceipts' = SelectSeq(cashReceipts, LAMBDA r : r.saleId \notin saleIds)
             /\ Len(inventory') = Len(inventory)
             /\ \A i \in 1..Len(inventory) :
                  inventory'[i] =
                    IF inventory[i].id = x.invId
                    THEN [inventory[i] EXCEPT !.quantity =
                            IF x.type = "revenue" THEN @ + x.invQty ELSE @ - x.invQty]
                    ELSE inventory[i]]_vars

\* a transaction has just been deleted while another one, with cash rows
\* of its own, is stored
C13_Witness ==
  /\ last.op = "delete" /\ last.res = "ok"
  /\ transactions # <<>>
  /\ cashReceipts # <<>> \/ cashDisbursements # <<>>

\* C14: deleteTransaction asks for confirmation exactly when the
\* transaction is a purchase linked to an existing item whose quantity the
\* revert would make negative; when the answer is no, nothing changes.
C14_DeleteConfirmationGate ==
  [][last'.op = "delete"
       => LET x == transactions[TxnIndex(Ledger, last'.id)]
              k == ItemIndex(Ledger, x.invId)
          IN /\ last'.asked = (/\ x.type = "expense"
                               /\ x.invId # NoId
                               /\ k # 0
                               /\ inventory[k].quantity - x.invQty < 0)
             /\ (last'.asked /\ ~last'.ok)
                  => (last'.res = "declined" /\ ledgers' = ledgers)]_vars

\* the confirmation of a delete has just been declined
C14_Witness ==
  /\ last.op = "delete" /\ last.res = "declined"
  /\ last.asked /\ ~last.ok

\* C15: an edit whose original snapshot is linked to an item that no longer
\* exists aborts with nothing changed: the stored transaction, inventory,
\* audit log and journals are as before.
C15_EditAbortsOnMissingItem ==
  [][(/\ last'.op = "edit"
      /\ originalTxnSnapshot # <<>>
      /\ originalTxnSnapshot[1].invId # NoId
      /\ originalTxnSnapshot[1].invId \notin ItemIds)
       => /\ last'.res \in {"invalid", "not_found", "revert_error"}
          /\ ledgers' = ledgers]_vars

\* an edit has just been refused because the original's item is gone
C15_Witness ==
  /\ last.op = "edit" /\ last.res = "revert_error"
  /\ transactions # <<>>

\* C16: a markSalePaid or paySupplier call leaves every entry's paidAmount
\* at or below its amount and never lowers it.
GrowsWithinAmount(js, js2) ==
  /\ Len(js2) = Len(js)
  /\ \A i \in 1..Len(js) :
       /\ js2[i].paidAmount >= js[i].paidAmount
       /\ js2[i].paidAmount <= js2[i].amount

C16_SettlementBound ==
  [][last'.op \in {"markSalePaid", "paySupplier"}
       => /\ GrowsWithinAmount(salesJournal, salesJournal')
          /\ GrowsWithinAmount(purchasesJournal, purchasesJournal')]_vars

\* a sale has been settled by two payments, the second one just now
C16_Witness ==
  /\ last.op = "markSalePaid" /\ last.res = "ok"
  /\ \E j \in Range(salesJournal) :
       /\ j.id = last.id
       /\ j.paidAmount = j.amount
       /\ Len(SelectSeq(cashReceipts,
                        LAMBDA r : r.saleId = j.id /\ r.note # "Cash sale (paid in full)")) >= 2

\* C17: a settle call with requested amount a on an entry with remaining =
\* amount - paidAmount settles min(a, remaining), or remaining when a is
\* omitted; if that is <= 0, or the entry id is not found, the call changes
\* nothing.
Payable(j, a) ==
  IF a = <<>> THEN j.amount - j.paidAmount
  ELSE Min(a[1], j.amount - j.paidAmount)

C17_SettleClampAndReject ==
  \A a \in PayInputs :
    /\ \A id \in {j.id : j \in Range(salesJournal)} \cup {NoId} :
         LET r == markSalePaid(Ledger, id, a)
             es == {i \in 1..Len(salesJournal) : salesJournal[i].id = id}
         IN /\ es = {} => r.s = Ledger
            /\ \A i \in es :
                 IF Payable(salesJournal[i], a) <= 0 THEN r.s = Ledger
                 ELSE r.s.salesJournal[i].paidAmount
                        = salesJournal[i].paidAmount + Payable(salesJournal[i], a)
    /\ \A id \in {j.id : j \in Range(purchasesJournal)} \cup {NoId} :
         LET r == paySupplier(Ledger, id, a)
             es == {i \in 1..Len(purchasesJournal) : purchasesJournal[i].id = id}
         IN /\ es = {} => r.s = Ledger
            /\ \A i \in es :
                 IF Payable(purchasesJournal[i], a) <= 0 THEN r.s = Ledger
                 ELSE r.s.purchasesJournal[i].paidAmount
                        = purchasesJournal[i].paidAmount + Payable(purchasesJournal[i], a)

\* a payment on a fully paid sale has just been refused
C17_Witness ==
  /\ last.op = "markSalePaid" /\ last.res = "nothing"
  /\ \E j \in Range(salesJournal) : j.id = last.id /\ j.paidAmount = j.amount

\* C18: a successful settle call prepends exactly one record, a receipt
\* for a sale or a disbursement for a purchase, of exactly the amount by
\* which paidAmount grew, linked to the settled entry, with note 'Paid in
\* full' if the entry is fully paid after the call, else 'Partial payment'.
PaymentNote(j) ==
  IF j.paidAmount >= j.amount THEN "Paid in full" ELSE "Partial payment"

C18_SettleRecordsPayment ==
  [][/\ (last'.op = "markSalePaid" /\ last'.res = "ok")
          => /\ cashReceipts' # <<>>
             /\ Tail(cashReceipts') = cashReceipts
             /\ cashDisbursements' = cashDisbursements
             /\ \E i \in 1..Len(salesJournal) :
                  /\ salesJournal[i].id = last'.id
                  /\ Head(cashReceipts').amount
                       = salesJournal'[i].paidAmount - salesJournal[i].paidAmount
                  /\ Head(cashReceipts').amount > 0
                  /\ Head(cashReceipts').saleId = last'.id
                  /\ Head(cashReceipts').note = PaymentNote(salesJournal'[i])
     /\ (last'.op = "paySupplier" /\ last'.res = "ok")
          => /\ cashDisbursements' # <<>>
             /\ Tail(cashDisbursements') = cashDisbursements
             /\ cashReceipts' = cashReceipts
             /\ \E i \in 1..Len(purchasesJournal) :
                  /\ purchasesJournal[i].id = last'.id
                  /\ Head(cashDisbursements').amount
                       = purchasesJournal'[i].paidAmount - purchasesJournal[i].paidAmount
                  /\ Head(cashDisbursements').amount > 0
                  /\ Head(cashDisbursements').txnId = purchasesJournal[i].txnId
                  /\ Head(cashDisbursements').note = PaymentNote(purchasesJournal'[i])]_vars

\* a supplier has just been paid part of what a purchase is worth
C18_Witness ==
  /\ last.op = "paySupplier" /\ last.res = "ok"
  /\ cashDisbursements # <<>>
  /\ Head(cashDisbursements).note = "Partial payment"

\* C19: markSalePaid and paySupplier leave the transactions, the inventory
\* and the audit log unchanged and change no journal entry other than the
\* one being settled.
OthersKept(js, js2, id) ==
  /\ Len(js2) = Len(js)
  /\ \A i \in 1..Len(js) : js[i].id # id => js2[i] = js[i]

C19_SettlementFrame ==
  [][last'.op \in {"markSalePaid", "paySupplier"}
       => /\ transactions' = transactions
          /\ inventory' = inventory
          /\ logs' = logs
          /\ OthersKept(salesJournal, salesJournal', last'.id)
          /\ OthersKept(purchasesJournal, purchasesJournal', last'.id)]_vars

\* a sale has just been settled while another entry is still unpaid
C19_Witness ==
  /\ last.op = "markSalePaid" /\ last.res = "ok"
  /\ \E j \in JournalEntries : j.id # last.id /\ ~j.paid

\* C20: a created revenue adds one Sales entry, a created inventory-linked
\* expense raises the item's quantity by invQty and adds one Purchases
\* entry, each for the transaction's amount; with Cash the entry is paid in
\* full and exactly one receipt (sale) or disbursement (purchase) of the
\* full amount is added, with Credit it has paidAmount 0, paid false and no
\* receipt or disbursement is added.
PaidAs(e, x) ==
  IF x.paymentMethod = "Cash"
  THEN e.paidAmount = x.amount /\ e.paid
  ELSE e.paidAmount = 0 /\ ~e.paid

OneMore(rows, rows2) == rows2 # <<>> /\ Tail(rows2) = rows

C20_CreateProjection ==
  [][(last'.op \in {"create", "stockAdd"} /\ last'.res = "ok")
       => LET x == transactions'[Len(transactions')]
              cash == (x.paymentMethod = "Cash")
          IN /\ x.id = last'.id
             /\ x.type = "revenue" =>
                  /\ OneMore(salesJournal, salesJournal')
                  /\ purchasesJournal' = purchasesJournal
                  /\ Head(salesJournal').txnId = x.id
                  /\ Head(salesJournal').amount = x.amount
                  /\ PaidAs(Head(salesJournal'), x)
                  /\ cashDisbursements' = cashDisbursements
                  /\ IF cash
                     THEN /\ OneMore(cashReceipts, cashReceipts')
                          /\ Head(cashReceipts').amount = x.amount
                          /\ Head(cashReceipts').saleId = Head(salesJournal').id
                     ELSE cashReceipts' = cashReceipts
             /\ (x.type = "expense" /\ x.invId # NoId) =>
                  /\ OneMore(purchasesJournal, purchasesJournal')
                  /\ salesJournal' = salesJournal
                  /\ Head(purchasesJournal').txnId = x.id
                  /\ Head(purchasesJournal').amount = x.amount
                  /\ PaidAs(Head(purchasesJournal'), x)
                  /\ cashReceipts' = cashReceipts
                  /\ IF cash
                     THEN /\ OneMore(cashDisbursements, cashDisbursements')
                          /\ Head(cashDisbursements').amount = x.amount
                          /\ Head(cashDisbursements').txnId = x.id
                     ELSE cashDisbursements' = cashDisbursements
                  /\ \A i \in 1..Len(inventory) :
                       inventory[i].id = x.invId
                         => inventory'[i].quantity = inventory[i].quantity + x.invQty]_vars

\* a cash purchase of stock has just been created next to an earlier
\* transaction
C20_Witness ==
  /\ last.op \in {"create", "stockAdd"} /\ last.res = "ok"
  /\ Len(transactions) >= 2
  /\ \E e \in Range(purchasesJournal) : e.txnId = last.id /\ e.paid

\* the forced settlement of entry j (before the edit) into j2 (after it):
\* if j2 is Cash and less than its amount had been paid, it is paid in
\* full and the newest of rows2, one row longer than rows, is the
\* 'Marked paid on edit (diff)' record of the shortfall
ForcedSettlement(j, j2, rows, rows2) ==
  (j2.paymentMethod = "Cash" /\ j.paidAmount < j2.amount)
    => /\ j2.paidAmount = j2.amount
       /\ j2.paid
       /\ Len(rows2) = Len(rows) + 1
       /\ Head(rows2).note = "Marked paid on edit (diff)"
       /\ Head(rows2).amount = j2.amount - j.paidAmount

\* C21: after a successful edit, a Sales or Purchases entry of the edited
\* transaction that is Cash and had less than its new amount paid is paid in
\* full, and exactly one Cash Receipt (sale) or Cash Disbursement (purchase)
\* noted 'Marked paid on edit (diff)' was added whose amount is the
\* shortfall, the new amount less the amount paid before.
C21_EditForcedSettlement ==
  [][(last'.op = "edit" /\ last'.res = "ok")
       => /\ \A i \in EntriesOf(salesJournal, last'.id) :
               ForcedSettlement(salesJournal[i], salesJournal'[i],
                                cashReceipts, cashReceipts')
          /\ \A i \in EntriesOf(purchasesJournal, last'.id) :
               ForcedSettlement(purchasesJournal[i], purchasesJournal'[i],
                                cashDisbursements, cashDisbursements')]_vars

\* the sum of qtyChange over the entries of ls that belong to item id
RECURSIVE LogSum(_, _)
LogSum(ls, id) ==
  IF ls = <<>> THEN 0
  ELSE (IF Head(ls).itemId = id THEN Head(ls).qtyChange ELSE 0)
       + LogSum(Tail(ls), id)

\* C22 as stated: the qtyChange of an item's audit entries sum to its
\* quantity less the quantity it was created with.  Step by step: a newly
\* created item has entries that sum to 0, whatever its starting quantity,
\* and every later step moves the sum and the quantity of an existing item
\* by the same amount.
C22_LogSumIsQuantityChange ==
  [][\A n \in Range(inventory') :
       IF n.id \in ItemIds
       THEN \E o \in Range(inventory) :
              /\ o.id = n.id
              /\ LogSum(logs', n.id) - LogSum(logs, n.id)
                   = n.quantity - o.quantity
       ELSE LogSum(logs', n.id) = 0]_vars

\* C22: for every existing item, the qtyChange of its audit entries sum to
\* its current quantity: the starting quantity is itself logged, as the
\* 'Initial stock on item creation' entry.
C22_LogSumIsQuantity ==
  \A it \in Range(inventory) : LogSum(logs, it.id) = it.quantity

\* an item created with stock whose quantity has moved since
C22_Witness ==
  \E it \in Range(inventory), l \in Range(logs) :
    /\ l.itemId = it.id
    /\ l.note[1] = "Initial stock on item creation"
    /\ l.qtyChange # 0
    /\ it.quantity # l.qtyChange

\* this step put exactly one entry, of the given action, in front of the
\* audit log, and moved the quantities from inv to inv2 by that entry's
\* qtyChange on its item and not at all on the others
OneEntryForDelta(action, inv, inv2) ==
  /\ OneMore(logs, logs')
  /\ Head(logs').action = action
  /\ Len(inv2) = Len(inv)
  /\ \A k \in 1..Len(inv) :
       /\ inv2[k].id = inv[k].id
       /\ inv2[k].quantity =
            inv[k].quantity
              + (IF inv[k].id = Head(logs').itemId
                 THEN Head(logs').qtyChange ELSE 0)

\* C23 as stated: adding stock, removing stock and a recount on item edit
\* each move the quantity by the delta, append exactly one 'manual' audit
\* entry with that qtyChange and leave the transactions and the four
\* journals as they were.
C23_ManualAdjustmentFrame ==
  [][(\/ last'.op \in {"stockAdd", "stockRemove"} /\ last'.res = "ok"
      \/ last'.op = "itemEdit" /\ quantities' # quantities)
       => /\ OneEntryForDelta("manual", inventory, inventory')
          /\ transactions' = transactions
          /\ journals' = journals]_vars

\* C23: removing stock through the stock form, and an item edit that
\* changes the quantity, move the quantity by the delta, append exactly one
\* 'manual' audit entry with that qtyChange and leave the transactions and
\* the four journals as they were; an item edit that keeps the quantity
\* writes no audit entry; adding stock through the stock form is a purchase:
\* it appends one 'purchase' audit entry and one expense transaction of
\* amount unit price times quantity, with its Purchases Journal entry.
C23_ManualAdjustment ==
  [][/\ (\/ last'.op = "stockRemove" /\ last'.res = "ok"
         \/ last'.op = "itemEdit" /\ quantities' # quantities)
          => /\ OneEntryForDelta("manual", inventory, inventory')
             /\ transactions' = transactions
             /\ journals' = journals
     /\ (last'.op = "itemEdit" /\ quantities' = quantities)
          => /\ logs' = logs
             /\ transactions' = transactions
             /\ journals' = journals
     /\ (last'.op = "stockAdd" /\ last'.res = "ok")
          => /\ OneEntryForDelta("purchase", inventory, inventory')
             /\ Len(transactions') = Len(transactions) + 1
             /\ SubSeq(transactions', 1, Len(transactions)) = transactions
             /\ LET x == transactions'[Len(transactions')]
                    k == ItemIndex(Ledger, x.invId)
                IN /\ x.id = last'.id
                   /\ x.type = "expense"
                   /\ x.invId = Head(logs').itemId
                   /\ x.invQty = Head(logs').qtyChange
                   /\ x.amount = inventory[k].unitPrice * x.invQty
                   /\ OneMore(purchasesJournal, purchasesJournal')
                   /\ Head(purchasesJournal').txnId = x.id
                   /\ salesJournal' = salesJournal
                   /\ cashReceipts' = cashReceipts]_vars

\* stock has just been removed from an item that was recounted on edit,
\* while a transaction is stored
C23_Witness ==
  /\ last.op = "stockRemove" /\ last.res = "ok"
  /\ logs # <<>>
  /\ Head(logs).note[1] = "Manual remove"
  /\ \E l \in Range(logs) : l.note[1] = "Edit item starting qty adjusted"
  /\ transactions # <<>>

\* C24: every stored transaction has a positive amount and, when it is
\* linked to an item, a positive quantity; this includes the purchases the
\* stock form generates for an item whose unit price may be 0.
C24_StoredTransactionsValid ==
  \A x \in Range(transactions) :
    /\ x.amount > 0
    /\ x.invId # NoId => x.invQty > 0

\* C25: whatever saveAll a create stops after, what is stored then does not
\* hold the inventory change and the audit entry of the new transaction
\* without the transaction being in the stored transactions.
C25_PersistenceAtomicity ==
  [][(last'.op = "createStopped"
        /\ (quantities' # quantities \/ logs' # logs))
       => last'.id \in {x.id : x \in Range(transactions')}]_vars

\* row i of the General Journal shows record r under the tag given
RowShows(i, r, tag) ==
  /\ generalJournal[i].type = tag
  /\ generalJournal[i].date = r.date
  /\ generalJournal[i].amount = r.amount

\* the General Journal has one row per stored transaction, tagged with the
\* transaction's type, then one row tagged 'receipt' per Cash Receipt, then
\* one row tagged 'disbursement' per Cash Disbursement, each group latest
\* first, and no other row
GeneralJournalIsProjection ==
  LET nT == Len(transactions)
      nR == Len(cashReceipts)
      nD == Len(cashDisbursements)
  IN /\ Len(generalJournal) = nT + nR + nD
     /\ \A i \in 1..nT :
          RowShows(i, transactions[nT + 1 - i], transactions[nT + 1 - i].type)
     /\ \A i \in 1..nR :
          RowShows(nT + i, cashReceipts[nR + 1 - i], "receipt")
     /\ \A i \in 1..nD :
          RowShows(nT + nR + i, cashDisbursements[nD + 1 - i], "disbursement")

\* C26: the General Journal is derived: in every state its rows are exactly
\* one per stored transaction, one tagged 'receipt' per Cash Receipt and one
\* tagged 'disbursement' per Cash Disbursement, so that their number is the
\* sum of the three stores' sizes, and it changes only in a step that changes
\* one of those three stores.
C26_GeneralJournalDerived ==
  /\ []GeneralJournalIsProjection
  /\ [][generalJournal' # generalJournal
          => \/ transactions' # transactions
             \/ cashReceipts' # cashReceipts
             \/ cashDisbursements' # cashDisbursements]_vars

\* transactions, receipts and disbursements are all shown, after a payment
C26_Witness ==
  /\ Len(transactions) = MaxPair
  /\ cashReceipts # <<>>
  /\ cashDisbursements # <<>>
  /\ Len(generalJournal) > MaxPair + 1
  /\ last.op \in {"markSalePaid", "paySupplier"} /\ last.res = "ok"

\* C27: deleting an inventory item removes that item and every audit entry
\* that carries its itemId, and leaves the transactions, the four journals
\* and the other items, with their quantities and audit entries, as they
\* were.
C27_ItemDeleteFrame ==
  [][last'.op = "itemDelete"
       => \E id \in ItemIds :
            /\ inventory' = SelectSeq(inventory, LAMBDA x : x.id # id)
            /\ logs' = SelectSeq(logs, LAMBDA l : l.itemId # id)
            /\ transactions' = transactions
            /\ journals' = journals]_vars

\* an item with a stored purchase or sale has just been deleted while
\* another item with audit entries is kept
C27_Witness ==
  /\ last.op = "itemDelete"
  /\ \E x \in Range(transactions) : x.invId # NoId /\ x.invId \notin ItemIds
  /\ \E it \in Range(inventory), l \in Range(logs) : l.itemId = it.id

\* the quantity of item id in inv
QuantityOf(inv, id) ==
  inv[FirstIn(inv, {it \in Range(inv) : it.id = id})].quantity

\* C28: the audit log is append-only and newest-first: every operation
\* other than an item deletion keeps the entries there were, in content and
\* order, behind the entries it writes, and each entry it writes carries as
\* balanceAfter the quantity its item had right after the change the entry
\* records, that is, the item's quantity after the operation less the
\* qtyChange of the newer entries the operation wrote for that item.  In
\* particular editing or deleting a transaction rewrites no older
\* balanceAfter.
C28_AuditLogAppendOnly ==
  [][last'.op # "itemDelete"
       => LET n == Len(logs') - Len(logs) IN
          /\ n >= 0
          /\ SubSeq(logs', n + 1, Len(logs')) = logs
          /\ \A i \in 1..n :
               logs'[i].balanceAfter =
                 <<QuantityOf(inventory', logs'[i].itemId)
                     - LogSum(SubSeq(logs', 1, i - 1), logs'[i].itemId)>>]_vars

\* an edit has just written a 'restore' entry and then the entry of the new
\* version in front of an older entry
C28_Witness ==
  /\ last.op = "edit" /\ last.res = "ok"
  /\ Len(logs) >= 3
  /\ logs[1].action \in {"sale", "purchase"}
  /\ logs[2].action = "restore"
  /\ logs[1].balanceAfter # logs[2].balanceAfter
  /\ logs[2].balanceAfter # logs[3].balanceAfter

\* C29: a successful edit writes only the audit entries of its revert and
\* apply steps: one 'restore' entry, for the original's item, if the
\* original was linked, followed by one 'sale' or 'purchase' entry, for the
\* new version's item, if the new version is linked; it writes no 'edit'
\* entry and no other entry.
C29_EditAuditEntries ==
  [][(last'.op = "edit" /\ last'.res = "ok")
       => /\ originalTxnSnapshot # <<>>
          /\ LET old == originalTxnSnapshot[1]
                 new == transactions'[FirstIn(transactions',
                          {x \in Range(transactions') : x.id = last'.id})]
                 r == IF old.invId # NoId THEN 1 ELSE 0
                 a == IF new.invId # NoId THEN 1 ELSE 0
             IN /\ Len(logs') = Len(logs) + r + a
                /\ SubSeq(logs', r + a + 1, Len(logs')) = logs
                /\ a = 1 =>
                     /\ logs'[1].action =
                          (IF new.type = "revenue" THEN "sale" ELSE "purchase")
                     /\ logs'[1].itemId = new.invId
                /\ r = 1 =>
                     /\ logs'[a + 1].action = "restore"
                     /\ logs'[a + 1].itemId = old.invId
                /\ (r = 1 /\ a = 1) =>
                     logs'[2].timestamp < logs'[1].timestamp]_vars

\* a linked purchase has just been edited into a linked sale: the purchase
\* was restored, then the sale logged
C29_Witness ==
  /\ last.op = "edit" /\ last.res = "ok"
  /\ Len(logs) >= 2
  /\ logs[1].action = "sale"
  /\ logs[2].action = "restore" /\ logs[2].qtyChange < 0

\* the inventory cost of every stored transaction, by transaction id
InventoryCosts ==
  {<<x.id, getTxnInventoryCost(Ledger, x)>> : x \in Range(transactions)}

\* C30: a sale of d units of an item that has just been stored, by a create
\* or by a successful edit, has taken d from the item's quantity (create)
\* and carries invCost = d times the item's unit price at that moment; an
\* item edit, which may change the unit price, changes no stored invCost;
\* purchases and unlinked transactions carry invCost 0.
C30_CogsSnapshot ==
  /\ [](\A x \in Range(transactions) :
          (x.type = "expense" \/ x.invId = NoId)
            => (x.invCost = 0 /\ getTxnInventoryCost(Ledger, x) = 0))
  /\ [][(last'.op \in {"create", "edit"} /\ last'.res = "ok")
          => LET x == transactions'[FirstIn(transactions',
                        {y \in Range(transactions') : y.id = last'.id})]
                 k == ItemIndex(Ledger, x.invId)
             IN (x.type = "revenue" /\ x.invId # NoId)
                  => /\ k # 0
                     /\ x.invCost = x.invQty * inventory[k].unitPrice
                     /\ last'.op = "create"
                          => inventory'[k].quantity
                               = inventory[k].quantity - x.invQty]_vars
  /\ [][last'.op = "itemEdit"
          => /\ transactions' = transactions
             /\ InventoryCosts' = InventoryCosts]_vars

\* the unit price of an item has just been edited away from the price its
\* stored sale of MaxQty units was costed at
C30_Witness ==
  /\ last.op = "itemEdit"
  /\ \E x \in Range(transactions), it \in Range(inventory) :
       /\ x.type = "revenue" /\ x.invId = it.id
       /\ x.invQty = MaxQty
       /\ x.invCost = MaxQty * MaxPrice
       /\ it.unitPrice # MaxPrice

\* C31: every Purchases and Sales entry has paid = TRUE exactly when its
\* paidAmount has reached its amount, whether it was just created, Cash or
\* Credit, settled or edited.
C31_PaidFlagConsistent ==
  \A j \in JournalEntries : j.paid <=> (j.paidAmount >= j.amount)

\* the sum of qtyChange over the 'manual' entries of ls that belong to item
\* id: its logged starting quantity and its manual adjustments
RECURSIVE ManualSum(_, _)
ManualSum(ls, id) ==
  IF ls = <<>> THEN 0
  ELSE (IF Head(ls).itemId = id /\ Head(ls).action = "manual"
        THEN Head(ls).qtyChange ELSE 0)
       + ManualSum(Tail(ls), id)

\* the invQty of the purchases in xs linked to item id, less the invQty of
\* the sales in xs linked to it
RECURSIVE NetStock(_, _)
NetStock(xs, id) ==
  IF xs = <<>> THEN 0
  ELSE (IF Head(xs).invId # id THEN 0
        ELSE IF Head(xs).type = "expense" THEN Head(xs).invQty
        ELSE 0 - Head(xs).invQty)
       + NetStock(Tail(xs), id)

\* C32: each existing item's quantity is its starting quantity plus its
\* manual adjustments, plus the invQty of the stored purchases linked to it,
\* minus the invQty of the stored sales linked to it.
C32_StockConservation ==
  \A it \in Range(inventory) :
    it.quantity = ManualSum(logs, it.id) + NetStock(transactions, it.id)

\* C33: an edit whose revert of the original succeeded and whose apply of
\* the candidate failed re-applies the original with success, whatever the
\* quantities are: no edit ends with 'Critical: ... rollback failed'.
C33_RollbackSucceeds ==
  ~(last.op = "edit" /\ last.res = "rollback_failed")

\* C34: for every Sales entry the amounts of the Cash Receipts whose saleId
\* is the entry's id sum to its paidAmount, and for every Purchases entry
\* the amounts of the Cash Disbursements whose txnId is the entry's txnId
\* sum to its paidAmount.
C34_CashMatchesPaid ==
  /\ \A j \in Range(salesJournal) :
       SumAmounts(SelectSeq(cashReceipts, LAMBDA r : r.saleId = j.id))
         = j.paidAmount
  /\ \A p \in Range(purchasesJournal) :
       SumAmounts(SelectSeq(cashDisbursements, LAMBDA d : d.txnId = p.txnId))
         = p.paidAmount

\* C35: no journal row is an orphan: every Purchases and Sales entry's
\* txnId is the id of a stored transaction, every Cash Disbursement that
\* carries a txnId refers to a stored transaction, and every Cash Receipt's
\* saleId is the id of a Sales entry.
C35_NoOrphans ==
  /\ \A j \in JournalEntries : j.txnId \in TxnIds
  /\ \A d \in Range(cashDisbursements) : d.txnId # NoId => d.txnId \in TxnIds
  /\ \A r \in Range(cashReceipts) :
       r.saleId \in {j.id : j \in Range(salesJournal)}

\* a paid sale has just been deleted, with its entry and receipts, while
\* another paid entry and its cash record stay
C35_Witness ==
  /\ last.op = "delete" /\ last.res = "ok"
  /\ last.id \notin TxnIds
  /\ generalJournal # <<>>
  /\ \E row \in Range(generalJournal) : row.type \in {"receipt", "disbursement"}
  /\ JournalEntries # {}

\* the open edit session holds a copy of the stored transaction it edits
SnapshotFresh ==
  (editId # NoId /\ editId \in TxnIds)
    => originalTxnSnapshot
         = <<transactions[FirstIn(transactions,
                            {x \in Range(transactions) : x.id = editId})]>>

\* C36: whatever ran between startEditTransaction and the submit (settling,
\* stock removal, item create, edit and delete, transaction create and
\* delete), the snapshot an edit reverts is field for field the stored
\* transaction with the edited id; and a submit for a transaction deleted in
\* the meantime changes no ledger.
C36_SnapshotFreshness ==
  /\ []SnapshotFresh
  /\ [][(last'.op = "edit" /\ editId \notin TxnIds)
          => (last'.res \in {"invalid", "not_found"} /\ ledgers' = ledgers)]_vars

\* the form has just been submitted for a transaction that was deleted
\* while it was open for editing, another transaction being stored
C36_Witness ==
  /\ last.op = "edit" /\ last.res = "not_found"
  /\ editId # NoId /\ editId \notin TxnIds
  /\ transactions # <<>>

============================================================================
